---------------------------- MODULE Spec2Model ----------------------------
(***************************************************************************)
(* Grubbs' test outlier filter (glbs_init / glbs_process).                 *)
(*                                                                         *)
(* Numbers.  A sample value is a non-negative integer in a unit chosen for *)
(* its input (the README data set is written in tenths), so a float is an  *)
(* integer with at most 24 significant bits, or a reduced fraction p/q.    *)
(* The additions of  sum += value  and the division of the final average   *)
(* round to 24 significant bits, to nearest and ties to even, as binary32  *)
(* does.  Inside a pass the average, the deviations, their squares and the *)
(* square root are exact, and the test  gpi > G_p(n)  is decided exactly   *)
(* on the squares of both sides; the critical values are written in        *)
(* thousandths (1.155 is 1155).  0/0 is NaN, and a comparison with NaN is  *)
(* false.                                                                  *)
(*                                                                         *)
(* Indices.  C arrays start at 0 and TLA+ sequences at 1: the C element    *)
(* a[k] is the element a[k + 1] here.                                      *)
(***************************************************************************)
EXTENDS Integers, Sequences, FiniteSets, TLC

MIN_SAMPLE_NUM == 3
MAX_SAMPLE_NUM == 20

GPN_99 == 0
GPN_95 == 1
GPN_90 == 2
GPN_80 == 3
gpn_mode_t == {GPN_99, GPN_95, GPN_90, GPN_80}

\* Bounds of the model.
MaxLen == 4      \* sample sequences of every length 0..MaxLen, in every order
MaxVal == 3      \* sample values 0..MaxVal
MaxOver == 2     \* lengths up to MAX_SAMPLE_NUM + MaxOver for the long family

Values == 0..MaxVal

\* The table with its rows in the opposite order (80% first, 99% last).
gpn_data_rows_reversed ==
  << <<1148, 1148, 1148, 1156, 1252, 1329, 1428, 1509, 1577, 1636,
       1688, 1734, 1775, 1813, 1847, 1879, 1909, 1935, 1961, 1985>>,
     <<1148, 1148, 1148, 1425, 1602, 1729, 1828, 1909, 1977, 2036,
       2088, 2134, 2175, 2213, 2247, 2279, 2309, 2335, 2361, 2385>>,
     <<1153, 1153, 1153, 1463, 1672, 1822, 1938, 2032, 2110, 2176,
       2234, 2285, 2331, 2371, 2409, 2443, 2475, 2501, 2532, 2557>>,
     <<1155, 1155, 1155, 1492, 1749, 1944, 2097, 2220, 2323, 2410,
       2485, 2550, 2607, 2659, 2705, 2747, 2785, 2821, 2954, 2884>> >>

\* The critical values G_p(n), in thousandths: one row per confidence level
\* (99%, 95%, 90%, 80%), MAX_SAMPLE_NUM columns.
gpn_data ==
  << <<1155, 1155, 1155, 1492, 1749, 1944, 2097, 2220, 2323, 2410,
       2485, 2550, 2607, 2659, 2705, 2747, 2785, 2821, 2954, 2884>>,
     <<1153, 1153, 1153, 1463, 1672, 1822, 1938, 2032, 2110, 2176,
       2234, 2285, 2331, 2371, 2409, 2443, 2475, 2501, 2532, 2557>>,
     <<1148, 1148, 1148, 1425, 1602, 1729, 1828, 1909, 1977, 2036,
       2088, 2134, 2175, 2213, 2247, 2279, 2309, 2335, 2361, 2385>>,
     <<1148, 1148, 1148, 1156, 1252, 1329, 1428, 1509, 1577, 1636,
       1688, 1734, 1775, 1813, 1847, 1879, 1909, 1935, 1961, 1985>> >>

\* The lookup with the columns taken as the table's header comment labels
\* them (first column n = 3).
GcritByLabel(mode, n) == gpn_data[mode + 1][(n - MIN_SAMPLE_NUM) + 1]

\* gpn_data[mode][left_num - 1] of the C code.
Gcrit(mode, n) == gpn_data[mode + 1][(n - 1) + 1]

----------------------------------------------------------------------------
\* Exact arithmetic.

Abs(x) == IF x < 0 THEN -x ELSE x

RECURSIVE Gcd(_, _)
Gcd(a, b) == IF b = 0 THEN a ELSE Gcd(b, a % b)

\* The fraction a / b in lowest terms, b > 0.
Quot(a, b) ==
  LET g == Gcd(Abs(a), Abs(b))
  IN  [p |-> a \div g, q |-> b \div g]

\* A float has FLT_MANT_DIG = 24 significant bits.
MantissaLimit == 2 ^ 24

\* The spacing of the floats around x >= 0.
Ulp[x \in Nat] == IF x < MantissaLimit THEN 1 ELSE 2 * Ulp[x \div 2]

\* a / b rounded to a multiple of u, to nearest and ties to even, u a power
\* of two.
RoundedTo(a, b, u) ==
  LET m == a \div (b * u)
      r == a % (b * u)
  IN  IF r > b * u - r \/ (r = b * u - r /\ m % 2 = 1)
      THEN (m + 1) * u ELSE m * u

\* The float nearest to the integer x >= 0.
RoundFloat[x \in Nat] == RoundedTo(x, 1, Ulp[x])

\* The power of two that brings a / b up to 2^23 or more, for a > 0.
ScaleUp[a \in Nat, b \in Nat] ==
  IF 2 * a >= MantissaLimit * b THEN 1 ELSE 2 * ScaleUp[2 * a, b]

\* The float quotient a / b of the float a >= 0 by the count b > 0.
FloatQuot(a, b) ==
  IF a = 0 THEN [p |-> 0, q |-> 1]
  ELSE IF a >= MantissaLimit * b
       THEN [p |-> RoundedTo(a, b, Ulp[a \div b]), q |-> 1]
       ELSE Quot(RoundedTo(a * ScaleUp[a, b], b, 1), ScaleUp[a, b])

\* a/b > c/1000000 for a, c >= 0 and b > 0, exactly: the quotient a/b is
\* expanded to six decimals, two at a time, and what is left of it decides a
\* tie.  No intermediate value exceeds 100 * b.
MillionthsGreater(a, b, c) ==
  LET r0 == a % b
      r1 == (100 * r0) % b
      r2 == (100 * r1) % b
      r3 == (100 * r2) % b
      m == (a \div b) * 1000000 + ((100 * r0) \div b) * 10000
             + ((100 * r1) \div b) * 100 + ((100 * r2) \div b)
  IN  m > c \/ (m = c /\ r3 > 0)

----------------------------------------------------------------------------
\* The working array glbs_data[MAX_SAMPLE_NUM] and the loops over it.

Slots == 1..MAX_SAMPLE_NUM

\* glbs_data = {0} and the memset.
ZeroData == [k \in Slots |-> [value |-> 0, valid |-> FALSE]]

\* The copy loop: slots 0..num-1 take the samples and are marked valid.
CopySamples(s) ==
  [k \in Slots |-> IF k <= Len(s) THEN [value |-> s[k], valid |-> TRUE]
                   ELSE [value |-> 0, valid |-> FALSE]]

\* One exchange of the bubble sort: the values are exchanged, the flags stay.
SwapValues(d, j) ==
  [d EXCEPT ![j].value = d[j + 1].value, ![j + 1].value = d[j].value]

\* The inner loop  for (j = 0; j < i; j++)  with j, i as C indices.
RECURSIVE SortInner(_, _, _)
SortInner(d, j, i) ==
  IF j >= i THEN d
  ELSE SortInner(IF d[j + 1].value > d[j + 2].value
                 THEN SwapValues(d, j + 1) ELSE d, j + 1, i)

\* The outer loop  for (i = num - 1; i > 0; i--).
RECURSIVE SortOuter(_, _)
SortOuter(d, i) ==
  IF i <= 0 THEN d
  ELSE LET e == SortInner(d, 0, i)
       IN  \* the guard has TLC compute the array of this iteration before
           \* the next one starts (operator arguments are evaluated lazily)
           CASE DOMAIN e = Slots -> SortOuter(e, i - 1)

\* The sort with its outer loop started at num - 2: the last slot stays put.
BubbleSortShort(d, n) == SortOuter(d, n - 2)

BubbleSort(d, n) == SortOuter(d, n - 1)

\* The counting loop without its test of the valid flag.
CountValidAll(d, n) == n

\* The counting loop: left_num and sum over the valid slots below n.
RECURSIVE CountValid(_, _)
CountValid(d, n) ==
  IF n = 0 THEN 0
  ELSE CountValid(d, n - 1) + (IF d[n].valid THEN 1 ELSE 0)

\* sum += glbs_data[i].value is a float addition.
RECURSIVE SumValid(_, _)
SumValid(d, n) ==
  IF n = 0 THEN 0
  ELSE IF d[n].valid THEN RoundFloat[SumValid(d, n - 1) + d[n].value]
  ELSE SumValid(d, n - 1)

\* value - average, times left_num:  average = sum / left_num.
Dev(d, k, sm, ln) == ln * d[k].value - sm

\* The sum of (value - average)^2 over the valid slots, times left_num^2.
RECURSIVE SqSum(_, _, _, _)
SqSum(d, n, sm, ln) ==
  IF n = 0 THEN 0
  ELSE SqSum(d, n - 1, sm, ln)
       + (IF d[n].valid THEN Dev(d, n, sm, ln) * Dev(d, n, sm, ln) ELSE 0)

\* The test with a division by a zero deviation taken to exceed every
\* critical value.
ExceedsOnNaN(d, k, sm, ln, sq, mode) ==
  IF sq = 0 THEN TRUE
  ELSE MillionthsGreater(Dev(d, k, sm, ln) * Dev(d, k, sm, ln) * (ln - 1), sq,
                         Gcrit(mode, ln) * Gcrit(mode, ln))

\* The test with the variance divided by left_num instead of left_num - 1.
ExceedsPopulation(d, k, sm, ln, sq, mode) ==
  IF sq = 0 THEN FALSE
  ELSE MillionthsGreater(Dev(d, k, sm, ln) * Dev(d, k, sm, ln) * ln, sq,
                         Gcrit(mode, ln) * Gcrit(mode, ln))

\* gpi > gpn_data[s_gpn_mode][left_num - 1]  for slot k, where
\* gpi = fabs(value - average) / std_deviation and
\* std_deviation = sqrt(sum of squares / (left_num - 1)).
\* With sq = 0 every deviation is 0, gpi = 0/0 is NaN and the test is false.
Exceeds(d, k, sm, ln, sq, mode) ==
  IF sq = 0 THEN FALSE
  ELSE MillionthsGreater(Dev(d, k, sm, ln) * Dev(d, k, sm, ln) * (ln - 1), sq,
                         Gcrit(mode, ln) * Gcrit(mode, ln))

\* The scan run from the last slot down: the last slot at or after k that is
\* valid and exceeds the critical value.
ScanDown(d, k, n, sm, ln, sq, mode) ==
  LET hits == {j \in k..n : d[j].valid /\ Exceeds(d, j, sm, ln, sq, mode)}
  IN  IF hits = {} THEN n + 1
      ELSE CHOOSE j \in hits : \A h \in hits : h <= j

\* The scan  for (i = 0; i < num; i++)  with its break: the first slot at or
\* after k that is valid and exceeds the critical value, n + 1 when the loop
\* runs to its end (i == num).
RECURSIVE Scan(_, _, _, _, _, _, _)
Scan(d, k, n, sm, ln, sq, mode) ==
  IF k > n THEN n + 1
  ELSE IF d[k].valid /\ Exceeds(d, k, sm, ln, sq, mode) THEN k
  ELSE Scan(d, k + 1, n, sm, ln, sq, mode)

\* left_num < MIN_SAMPLE_NUM: the loop stops before the scan.
TooFew(ln) == ln < MIN_SAMPLE_NUM

\* The scan without the assignment  glbs_data[i].valid = false.
ScanPassNoMark(d, n, sm, ln, sq, mode) ==
  LET i == Scan(d, 1, n, sm, ln, sq, mode)
  IN  IF i = n + 1 THEN [data |-> d, again |-> FALSE]
      ELSE [data |-> d, again |-> TRUE]

\* The scan with the while loop left after the first rejection.
ScanPassOnce(d, n, sm, ln, sq, mode) ==
  LET i == Scan(d, 1, n, sm, ln, sq, mode)
  IN  IF i = n + 1 THEN [data |-> d, again |-> FALSE]
      ELSE [data |-> [d EXCEPT ![i].valid = FALSE], again |-> FALSE]

\* The scan and what follows it in a pass: the array after the pass and
\* whether the while loop goes on (i # num) or ends (i == num).
ScanPass(d, n, sm, ln, sq, mode) ==
  LET i == Scan(d, 1, n, sm, ln, sq, mode)
  IN  IF i = n + 1 THEN [data |-> d, again |-> FALSE]
      ELSE [data |-> [d EXCEPT ![i].valid = FALSE], again |-> TRUE]

\* One pass of the while (1) loop over the array d.
LoopPass(d, n, mode) ==
  LET ln == CountValid(d, n)
      sm == SumValid(d, n)
  IN  IF TooFew(ln) THEN [data |-> d, again |-> FALSE]
      ELSE ScanPass(d, n, sm, ln, SqSum(d, n, sm, ln), mode)

\* The caller's float before any call has written it (no number has q = 0).
Unwritten == [p |-> 0, q |-> 0]

\* The final average with the sum divided by num instead of left_num.
FinalResultByNum(d, n) ==
  IF CountValid(d, n) > 0 THEN FloatQuot(SumValid(d, n), n)
  ELSE [p |-> 0, q |-> 1]

\* The final average: sum / left_num, or 0.0f when nothing is left.
FinalResult(d, n) ==
  IF CountValid(d, n) > 0 THEN FloatQuot(SumValid(d, n), CountValid(d, n))
  ELSE [p |-> 0, q |-> 1]


\* The valid values below n, in index order.
RECURSIVE ValidValues(_, _)
ValidValues(d, n) ==
  IF n = 0 THEN <<>>
  ELSE IF d[n].valid THEN Append(ValidValues(d, n - 1), d[n].value)
  ELSE ValidValues(d, n - 1)

\* The check of num with both comparisons off by one.
InvalidCountOffByOne(n) == n <= MIN_SAMPLE_NUM \/ n >= MAX_SAMPLE_NUM

\* num < MIN_SAMPLE_NUM || num > MAX_SAMPLE_NUM
InvalidCount(n) == n < MIN_SAMPLE_NUM \/ n > MAX_SAMPLE_NUM

\* The values of the invalidated slots below n, in index order.
RECURSIVE RejectedValues(_, _)
RejectedValues(d, n) ==
  IF n = 0 THEN <<>>
  ELSE IF d[n].valid THEN RejectedValues(d, n - 1)
  ELSE Append(RejectedValues(d, n - 1), d[n].value)

\* The while (1) loop run to its end on the array d.
RECURSIVE RejectLoop(_, _, _)
RejectLoop(d, n, mode) ==
  LET r == LoopPass(d, n, mode)
  IN  IF r.again THEN RejectLoop(r.data, n, mode) ELSE r.data

\* glbs_process as a function of the samples and the confidence level:
\* the value returned, the float written and the values rejected.
GlbsProcess(s, mode) ==
  IF InvalidCount(Len(s) % 256)
  THEN [ret |-> "false", result |-> Unwritten, rejected |-> <<>>]
  ELSE LET d == RejectLoop(BubbleSort(CopySamples(s), Len(s)), Len(s), mode)
       IN  [ret |-> "true", result |-> FinalResult(d, Len(s)),
            rejected |-> RejectedValues(d, Len(s))]

\* 0.0f / 0 in float (no number has q = 0).
NotANumber == [p |-> -1, q |-> 0]

\* The final average of the older copy: every loop runs over the whole
\* array, and sum / left_num has no guard.
OldFinalResult(d) ==
  IF CountValid(d, MAX_SAMPLE_NUM) = 0 THEN NotANumber
  ELSE FloatQuot(SumValid(d, MAX_SAMPLE_NUM), CountValid(d, MAX_SAMPLE_NUM))

\* glbs_process of the older copy as a function of the samples and the
\* confidence level: the value returned, the number of entries left valid at
\* the final division and the float written.  Its table, check of num, copy
\* and sort are those of the current copy; its loop counts, sums and scans
\* all MAX_SAMPLE_NUM slots.
OldGlbsProcess(s, mode) ==
  IF InvalidCount(Len(s) % 256)
  THEN [ret |-> "false", left_num |-> 0, result |-> Unwritten]
  ELSE LET d == RejectLoop(BubbleSort(CopySamples(s), Len(s)),
                           MAX_SAMPLE_NUM, mode)
       IN  [ret |-> "true", left_num |-> CountValid(d, MAX_SAMPLE_NUM),
            result |-> OldFinalResult(d)]

\* printf("%.3f", result) of the usage example for a result in tenths: the
\* number printed, in thousandths, rounded to the nearest.
Printf3(r) ==
  LET r1 == (10 * (r.p % r.q)) % r.q
      r2 == (10 * r1) % r.q
  IN  (r.p \div r.q) * 100 + ((10 * (r.p % r.q)) \div r.q) * 10
        + ((10 * r1) \div r.q) + (IF 2 * r2 >= r.q THEN 1 ELSE 0)

----------------------------------------------------------------------------
\* The inputs of the model.

\* Every sequence of at most MaxLen values, in every order.
ShortSamples == UNION {[1..n -> Values] : n \in 0..MaxLen}

\* All identical except one, for the lengths around MAX_SAMPLE_NUM.
LongLens == (MAX_SAMPLE_NUM - 1)..(MAX_SAMPLE_NUM + MaxOver)
LongSamples ==
  {[k \in 1..n |-> IF k = at THEN b ELSE a] :
     n \in LongLens, at \in 1..(MAX_SAMPLE_NUM + MaxOver), a \in Values, b \in Values}

\* The data set of the README's usage example, in tenths.
ReadmeSamples == <<82, 54, 50, 52, 151, 53, 55, 60>>

\* {5.0, 5.0, 5.0} in tenths.
ThreeFives == <<50, 50, 50>>

\* Seven samples 0.1f: the float nearest to 0.1 is 13421773 * 2^-27.
SevenTenths == [k \in 1..7 |-> 13421773]

SampleInputs ==
  ShortSamples \cup LongSamples \cup {ReadmeSamples, ThreeFives, SevenTenths}

----------------------------------------------------------------------------
VARIABLES
  s_gpn_mode,   \* the configured confidence level
  pc,           \* "idle", or the position of the call of glbs_process
  samples,      \* the caller's array
  num,          \* its length, a uint8_t
  glbs_data,    \* the working array
  left_num,     \* the locals of glbs_process: the count of valid entries,
  sum,          \* the running sum (of the values, then of the squares),
  average,      \* and the average, the pair of the sum and the count
  result,       \* the caller's float that result points to
  ret,          \* the value returned by glbs_process, "none" before it returns
  prev          \* the caller's record of its first call, once it calls again

vars ==
  <<s_gpn_mode, pc, samples, num, glbs_data, left_num, sum, average, result,
    ret, prev>>

\* The caller has made one call only.
NoPrev == <<>>

Init ==
  /\ s_gpn_mode = GPN_80
  /\ pc = "idle"
  /\ samples = <<>>
  /\ num = 0
  /\ glbs_data = ZeroData
  /\ left_num = 0
  /\ sum = 0
  /\ average = [p |-> 0, q |-> 1]
  /\ result = Unwritten
  /\ ret = "none"
  /\ prev = NoPrev

glbs_init(mode) ==
  /\ pc = "idle"
  /\ s_gpn_mode' = mode
  /\ UNCHANGED <<pc, samples, num, glbs_data, left_num, sum, average, result,
                 ret, prev>>

\* Entry of glbs_process: the locals, the check of num and the copy loop.
Enter(s) ==
  /\ samples' = s
  /\ num' = Len(s) % 256
  /\ left_num' = 0
  /\ sum' = 0
  /\ average' = [p |-> 0, q |-> 1]
  /\ IF InvalidCount(Len(s) % 256)
     THEN /\ glbs_data' = ZeroData
          /\ ret' = "false"
          /\ pc' = "done"
     ELSE /\ glbs_data' = CopySamples(s)
          /\ ret' = "none"
          /\ pc' = "sort"
  /\ UNCHANGED <<s_gpn_mode, result>>

glbs_process(s) ==
  /\ pc = "idle"
  /\ Enter(s)
  /\ UNCHANGED prev

Sort ==
  /\ pc = "sort"
  /\ glbs_data' = BubbleSort(glbs_data, num)
  /\ pc' = "loop"
  /\ UNCHANGED <<s_gpn_mode, samples, num, left_num, sum, average, result, ret,
                 prev>>

\* The head of a pass of the while (1) loop: the count and the sum of the
\* valid entries, the check of the count, the average and the sum of squares
\* under the standard deviation.
Stat ==
  /\ pc = "loop"
  /\ left_num' = CountValid(glbs_data, num)
  /\ IF TooFew(CountValid(glbs_data, num))
     THEN /\ sum' = SumValid(glbs_data, num)
          /\ average' = average
          /\ pc' = "final"
     ELSE /\ average' = [p |-> SumValid(glbs_data, num),
                         q |-> CountValid(glbs_data, num)]
          /\ sum' = SqSum(glbs_data, num, SumValid(glbs_data, num),
                          CountValid(glbs_data, num))
          /\ pc' = "scan"
  /\ UNCHANGED <<s_gpn_mode, samples, num, glbs_data, result, ret, prev>>

\* The rest of the pass: the scan for the first entry over the critical
\* value, its rejection, and the test that ends the loop.
Pass ==
  /\ pc = "scan"
  /\ LET r == ScanPass(glbs_data, num, average.p, left_num, sum, s_gpn_mode)
     IN  /\ glbs_data' = r.data
         /\ pc' = IF r.again THEN "loop" ELSE "final"
  /\ UNCHANGED <<s_gpn_mode, samples, num, left_num, sum, average, result, ret,
                 prev>>

Finalize ==
  /\ pc = "final"
  /\ left_num' = CountValid(glbs_data, num)
  /\ sum' = SumValid(glbs_data, num)
  /\ result' = FinalResult(glbs_data, num)
  /\ ret' = "true"
  /\ pc' = "done"
  /\ UNCHANGED <<s_gpn_mode, samples, num, glbs_data, average, prev>>

\* The caller runs glbs_process again, under the same confidence level, on
\* the entries its first call left valid.
Again ==
  /\ pc = "done"
  /\ ret = "true"
  /\ prev = NoPrev
  /\ prev' = <<[samples |-> samples,
               rejected |-> num - CountValid(glbs_data, num),
               result |-> result]>>
  /\ Enter(ValidValues(glbs_data, num))

Next ==
  \/ \E mode \in gpn_mode_t : glbs_init(mode)
  \/ \E s \in SampleInputs : glbs_process(s)
  \/ Sort
  \/ Stat
  \/ Pass
  \/ Finalize
  \/ Again

Spec == Init /\ [][Next]_vars

\* glbs_process runs on without waiting: a pass that has started is carried
\* out.
FairSpec == Spec /\ WF_vars(Stat) /\ WF_vars(Pass)

TypeOK ==
  /\ s_gpn_mode \in gpn_mode_t
  /\ pc \in {"idle", "sort", "loop", "scan", "final", "done"}
  /\ num \in 0..255
  /\ left_num \in 0..MAX_SAMPLE_NUM
  /\ ret \in {"none", "true", "false"}

----------------------------------------------------------------------------
\* Properties.

\* The slots marked valid, and the number of entries valid and rejected, read
\* off the state.
ValidSlots == {k \in 1..num : glbs_data[k].valid}
NumValid == Cardinality(ValidSlots)
NumRejected == num - NumValid

\* The call in progress has passed the check of num.
Accepted == pc \in {"sort", "loop", "scan", "final", "done"} /\ ret # "false"

\* What the caller's float held when the current call started.
ResultBefore == IF prev = NoPrev THEN Unwritten ELSE prev[1].result

\* C1: glbs_process returns false exactly when num < 3 or num > 20, and then
\* the caller's float is not written and the working array is neither filled,
\* sorted nor scanned; for every num in 3..20 it returns true.
C1_CountCheck ==
  pc = "done" =>
    /\ ret \in {"true", "false"}
    /\ (ret = "false") <=> (num < 3 \/ num > 20)
    /\ (ret = "true") <=> (num \in 3..20)
    /\ ret = "false" =>
         /\ result = ResultBefore
         /\ glbs_data = ZeroData
         /\ left_num = 0

\* A call with 21 samples has returned false.
C1_Witness == pc = "done" /\ ret = "false" /\ num = MAX_SAMPLE_NUM + 1

\* The first call, on the README samples under GPN_95, has returned.
ReadmeDone ==
  /\ pc = "done"
  /\ prev = NoPrev
  /\ samples = ReadmeSamples
  /\ s_gpn_mode = GPN_95

Reorderings(s) ==
  IF Len(s) <= MaxLen + 1
  THEN {[k \in 1..Len(s) |-> s[f[k]]] : f \in Permutations(1..Len(s))}
  ELSE {[k \in 1..Len(s) |-> IF k = j THEN s[j + 1]
                             ELSE IF k = j + 1 THEN s[j] ELSE s[k]] :
          j \in 1..(Len(s) - 1)}

\* C3: under the configured confidence level, every reordering of the samples
\* gives the result of the call that has returned and the same rejected values.
C3_PermutationInvariance ==
  (pc = "done" /\ ret = "true") =>
    \A s \in Reorderings(samples) :
      GlbsProcess(s, s_gpn_mode) =
        [ret |-> ret, result |-> result,
         rejected |-> RejectedValues(glbs_data, num)]

\* A call on samples that were not in ascending order has rejected an entry.
C3_Witness ==
  /\ pc = "done"
  /\ ret = "true"
  /\ NumRejected > 0
  /\ \E k \in 1..(num - 1) : samples[k] > samples[k + 1]

C5_Idempotence ==
  (prev # NoPrev /\ Accepted) => NumValid = num

\* The second call has returned true after a first call that rejected entries.
C5_Witness ==
  /\ prev # NoPrev
  /\ pc = "done"
  /\ ret = "true"
  /\ prev[1].rejected > 0
  /\ NumValid = num

\* The samples all hold the same value.
AllSame == \A j \in 1..Len(samples) : samples[j] = samples[1]

C7_FloorAsStated == (pc = "loop" \/ pc = "scan") => NumValid >= MIN_SAMPLE_NUM

\* C7 as amended: in every state of the rejection loop at least
\* MIN_SAMPLE_NUM - 1 entries are valid, and the scan that rejects is run only
\* with at least MIN_SAMPLE_NUM valid entries, all of them counted in left_num.
C7_Floor ==
  /\ (pc = "loop" \/ pc = "scan") => NumValid >= MIN_SAMPLE_NUM - 1
  /\ pc = "scan" => (NumValid >= MIN_SAMPLE_NUM /\ left_num = NumValid)

\* A pass that started with exactly MIN_SAMPLE_NUM valid entries has rejected
\* one of them.
C7_Witness ==
  /\ pc = "loop"
  /\ left_num = MIN_SAMPLE_NUM
  /\ NumValid = MIN_SAMPLE_NUM - 1

\* The scan is about to look up the critical value for left_num valid entries.
LookedUp == pc = "scan"

C9_Termination ==
  /\ [](Accepted =>
          /\ NumRejected <= MAX_SAMPLE_NUM - MIN_SAMPLE_NUM + 1
          /\ NumRejected <= num - MIN_SAMPLE_NUM + 1)
  /\ [][pc = "loop" =>
          /\ glbs_data' = glbs_data
          /\ pc' = "scan" \/ pc' = "final"]_vars
  /\ [][pc = "scan" =>
          \/ pc' = "final" /\ glbs_data' = glbs_data
          \/ pc' = "loop" /\ NumValid' = NumValid - 1]_vars
  /\ ((pc = "loop" \/ pc = "scan") ~> pc = "final")

\* The loop has ended after num - MIN_SAMPLE_NUM + 1 rejections.
C9_Witness ==
  /\ pc = "final"
  /\ num > MIN_SAMPLE_NUM
  /\ NumRejected = num - MIN_SAMPLE_NUM + 1

\* The valid slots whose G_i exceeds the critical value for the confidence
\* level and the current number of valid entries.
Outliers ==
  {k \in ValidSlots :
     Exceeds(glbs_data, k, SumValid(glbs_data, num), NumValid,
             SqSum(glbs_data, num, SumValid(glbs_data, num), NumValid),
             s_gpn_mode)}

\* C10: the scan of a pass invalidates the lowest-index valid entry whose G_i
\* exceeds the critical value for the current number of valid entries, and
\* changes nothing else; with no such entry it changes nothing and ends the
\* loop; and an entry invalidated in a call stays invalid for the rest of the
\* call.
C10_FirstMatch ==
  /\ [][pc = "scan" =>
          IF Outliers = {}
          THEN glbs_data' = glbs_data /\ pc' = "final"
          ELSE LET first == CHOOSE k \in Outliers : \A h \in Outliers : k <= h
               IN  /\ glbs_data' = [glbs_data EXCEPT ![first].valid = FALSE]
                   /\ pc' = "loop"]_vars
  /\ [][(pc = "loop" \/ pc = "scan" \/ pc = "final") =>
          \A k \in 1..num : glbs_data'[k].valid => glbs_data[k].valid = TRUE]_vars

\* The first pass has invalidated slot 0 although the last slot exceeded the
\* critical value too.
C10_Witness ==
  /\ pc = "loop"
  /\ NumRejected = 1
  /\ ~glbs_data[1].valid
  /\ LET d == [glbs_data EXCEPT ![1].valid = TRUE]
     IN  Exceeds(d, num, SumValid(d, num), num,
                 SqSum(d, num, SumValid(d, num), num), s_gpn_mode)


\* The exact sum of the values in the slots S of the working array.
RECURSIVE ExactSum(_)
ExactSum(S) ==
  IF S = {} THEN 0
  ELSE LET k == CHOOSE x \in S : TRUE
       IN  glbs_data[k].value + ExactSum(S \ {k})

\* C11: for every input of 3..20 samples and every confidence level, at
\* least MIN_SAMPLE_NUM - 1 = 2 entries are valid when glbs_process reaches
\* its finalization, so the final count is not 0 and the 0.0 fallback is not
\* taken; the result is the average of the entries left valid, as float
\* arithmetic computes it (the float nearest to the exact mean when the sum
\* is exact, and within 2^-20 of the exact mean in proportion always); and
\* the older copy, whose final division has no guard, is left with the same
\* count of at least 2, divides by it and writes the same float.
C11_Finalization ==
  /\ (Accepted /\ (pc = "final" \/ pc = "done")) =>
       NumValid >= MIN_SAMPLE_NUM - 1
  /\ (Accepted /\ pc = "done") =>
       /\ left_num = NumValid
       /\ left_num > 0
       /\ result.q > 0
       /\ ExactSum(ValidSlots) < MantissaLimit =>
            result = FloatQuot(ExactSum(ValidSlots), NumValid)
       /\ Abs(result.p * NumValid - result.q * ExactSum(ValidSlots))
            <= (result.q * ExactSum(ValidSlots)) \div (2 ^ 20)
       /\ OldGlbsProcess(samples, s_gpn_mode).ret = "true"
       /\ OldGlbsProcess(samples, s_gpn_mode).left_num = NumValid
       /\ OldGlbsProcess(samples, s_gpn_mode).result # NotANumber
       /\ OldGlbsProcess(samples, s_gpn_mode).result = result

\* A call has returned with a rejection behind it and exactly
\* MIN_SAMPLE_NUM - 1 entries left valid.
C11_Witness ==
  /\ pc = "done"
  /\ ret = "true"
  /\ NumValid = MIN_SAMPLE_NUM - 1
  /\ NumRejected > 0
  /\ result = FloatQuot(ExactSum(ValidSlots), MIN_SAMPLE_NUM - 1)

=============================================================================
